---- MODULE Spec2Model ----
(***************************************************************************)
(* Model of scripts/setup_dependencies.py: the installer that clones,      *)
(* configures, builds and installs common_system, thread_system and        *)
(* logger_system in sequence and patches thread_system-config.cmake.       *)
(*                                                                         *)
(* Text is a sequence of tokens.  The literals the script's regular        *)
(* expression names are one token each ("find_dependency", "fmt"); "x" is  *)
(* any other identifier character, " " a blank, "LF" and "CR" the line     *)
(* feed and carriage return characters.                                    *)
(***************************************************************************)
EXTENDS Integers, Sequences, FiniteSets, TLC

VARIABLES
    os,          \* args.os
    compiler,    \* args.compiler
    host,        \* the platform the interpreter runs on (decides os.linesep)
    run,         \* number of the current invocation of the script
    cur,         \* index in Deps of the dependency main() is working on
    pc,          \* position inside main()/setup_dependency()
    exitCode,    \* exit status of the process, -1 while it is running
    repoExists,  \* os.path.exists(workspace/<name>)
    buildDir,    \* state of workspace/<name>/build
    installed,   \* the install step of <name> succeeded in this run
    tree,        \* the thread install tree, its directories in os.walk order
    written,     \* files opened for writing by this run
    warned,      \* the "not found" warning was printed in this run
    startRepos,  \* the dependencies whose workspace/<name> existed at start
    log          \* the steps this run has performed, in order

vars == <<os, compiler, host, run, cur, pc, exitCode, repoExists, buildDir,
          installed, tree, written, warned, startRepos, log>>

\* ------------------------------------------------------------ bounds
MaxRuns == 2
MaxLen == 5

\* ------------------------------------------------------------ data
Deps == <<"common_system", "thread_system", "logger_system">>
DepNames == {Deps[i] : i \in 1..3}
RepoUrl(name) ==
    CASE name = "common_system" -> "https://github.com/kcenon/common_system.git"
      [] name = "thread_system" -> "https://github.com/kcenon/thread_system.git"
      [] name = "logger_system" -> "https://github.com/kcenon/logger_system.git"

OsValues == {"Windows", "Linux", "Darwin", "windows"}
CompilerValues == {"", "gcc"}
HostValues == {"posix", "nt"}
ReturnCodes == {0, 1, 2}
BuildType == "Release"
InstallBase == "<install-prefix>"

\* os.path.join(install_base, leaf)
InstallDir(leaf) == [base |-> InstallBase, leaf |-> leaf]
common_install == InstallDir("common_system_install")
thread_install == InstallDir("thread_system_install")
logger_install == InstallDir("logger_system_install")

Arg(key, val) == [key |-> key, val |-> val]

base_cmake_args(osv, comp) ==
    << Arg("CMAKE_BUILD_TYPE", <<BuildType>>),
       Arg("BUILD_TESTS", <<"OFF">>),
       Arg("BUILD_SAMPLES", <<"OFF">>),
       Arg("USE_STD_FORMAT", <<"ON">>) >>
    \o (IF osv = "Linux" /\ comp = "gcc"
        THEN << Arg("CMAKE_C_COMPILER", <<"gcc-13">>),
                Arg("CMAKE_CXX_COMPILER", <<"g++-13">>) >>
        ELSE << >>)

\* one entry "<form><dir>/include" of CMAKE_CXX_FLAGS
Include(form, dir) == [form |-> form, dir |-> dir]

common_args(osv, comp) ==
    base_cmake_args(osv, comp)
    \o << Arg("CMAKE_INSTALL_PREFIX", <<common_install>>) >>

\* variant: every value but "Linux" is taken for Windows
MutThreadCxxFlags(osv) ==
    IF osv # "Linux"
    THEN << Include("/I", common_install) >>
    ELSE << Include("-I", common_install) >>
\* thread_args[-1], rewritten when args.os == "Windows"
ThreadCxxFlags(osv) ==
    IF osv = "Windows"
    THEN << Include("/I", common_install) >>
    ELSE << Include("-I", common_install) >>

thread_args(osv, comp) ==
    base_cmake_args(osv, comp)
    \o << Arg("CMAKE_INSTALL_PREFIX", <<thread_install>>),
          Arg("CMAKE_PREFIX_PATH", <<common_install>>),
          Arg("CMAKE_CXX_FLAGS", ThreadCxxFlags(osv)) >>

LoggerCxxFlags(osv) ==
    IF osv = "Windows"
    THEN << Include("/I", common_install), Include("/I", thread_install) >>
    ELSE << Include("-I", common_install), Include("-I", thread_install) >>

\* variant: the two directories swapped
MutLoggerPrefixPath == << thread_install, common_install >>
\* the value of -DCMAKE_PREFIX_PATH for logger_system, ";"-separated
LoggerPrefixPath == << common_install, thread_install >>

logger_args(osv, comp) ==
    base_cmake_args(osv, comp)
    \o << Arg("CMAKE_INSTALL_PREFIX", <<logger_install>>),
          Arg("CMAKE_PREFIX_PATH", LoggerPrefixPath),
          Arg("CMAKE_CXX_FLAGS", LoggerCxxFlags(osv)) >>

cmake_args(name, osv, comp) ==
    CASE name = "common_system" -> common_args(osv, comp)
      [] name = "thread_system" -> thread_args(osv, comp)
      [] name = "logger_system" -> logger_args(osv, comp)

\* ------------------------------------------------------------ text
Min(S) == CHOOSE m \in S : \A n \in S : m <= n

IsSpace(c) == c \in {" ", "LF", "CR"}

\* open(config_file, 'r').read(): universal newlines
RECURSIVE ReadText(_)
ReadText(b) ==
    IF b = << >> THEN << >>
    ELSE IF Head(b) = "CR"
         THEN <<"LF">> \o ReadText(IF Len(b) > 1 /\ b[2] = "LF"
                                   THEN Tail(Tail(b)) ELSE Tail(b))
         ELSE <<Head(b)>> \o ReadText(Tail(b))

LineSep(h) == IF h = "nt" THEN <<"CR", "LF">> ELSE <<"LF">>

\* open(config_file, 'w').write(s): "\n" becomes os.linesep
RECURSIVE WriteText(_, _)
WriteText(s, h) ==
    IF s = << >> THEN << >>
    ELSE (IF Head(s) = "LF" THEN LineSep(h) ELSE <<Head(s)>>)
         \o WriteText(Tail(s), h)

\* \s*
RECURSIVE SkipWs(_, _)
SkipWs(s, i) ==
    IF i <= Len(s) /\ IsSpace(s[i]) THEN SkipWs(s, i + 1) ELSE i

\* [^)]*\) from position k: the index of the first ")" at or after k, or 0
CloseParen(s, k) ==
    LET closes == {m \in k..Len(s) : s[m] = ")"}
    IN  IF closes = {} THEN 0 ELSE Min(closes)

\* find_dependency\s*\(\s*fmt[^)]*\) matched at position i: the index of the
\* last character of the match, or 0 when there is no match at i
MatchEnd(s, i) ==
    IF s[i] # "find_dependency" THEN 0
    ELSE LET j == SkipWs(s, i + 1)
         IN  IF j > Len(s) \/ s[j] # "(" THEN 0
             ELSE LET k == SkipWs(s, j + 1)
                  IN  IF k > Len(s) \/ s[k] # "fmt" THEN 0
                      ELSE CloseParen(s, k + 1)

\* re.sub(pattern, '# \g<0>', s), scanning from position i
RECURSIVE SubFrom(_, _)
SubFrom(s, i) ==
    IF i > Len(s) THEN << >>
    ELSE LET e == MatchEnd(s, i)
         IN  IF e = 0
             THEN <<s[i]>> \o SubFrom(s, i + 1)
             ELSE <<"#", " ">> \o SubSeq(s, i, e) \o SubFrom(s, e + 1)

re_sub(s) == SubFrom(s, 1)

\* what the read / re.sub / write of patch_thread_system_config leaves on disk
PatchedBytes(b, h) == WriteText(re_sub(ReadText(b)), h)

\* ------------------------------------------------------------ install tree
NoFile == [has |-> FALSE, content |-> << >>]
File(c) == [has |-> TRUE, content |-> c]

\* the first directory of the walk that holds thread_system-config.cmake
FindConfig(t) ==
    LET hits == {i \in 1..Len(t) : t[i].has}
    IN  IF hits = {} THEN 0 ELSE Min(hits)

\* install trees cmake --install may produce for thread_system
TreeSamples ==
    { << NoFile, NoFile >>,
      << NoFile, File(<<"find_dependency", "(", "fmt", ")", "LF">>) >>,
      << File(<<"find_dependency", " ", "(", "fmt", " ", "x", ")">>),
         File(<<"find_dependency", "(", "fmt", ")">>) >>,
      << File(<<"find_dependency", "(", "x", ")", "LF">>), NoFile >> }


\* ------------------------------------------------------------ operations
\* variant: the failure is printed but the process is not ended
MutRunCommand(rc, next) == [pc |-> next, exit |-> -1]
\* run_command: a non-zero return code ends the process with status 1,
\* otherwise control goes on to `next`
run_command(rc, next) ==
    IF rc # 0 THEN [pc |-> "done", exit |-> 1]
              ELSE [pc |-> next, exit |-> -1]

Entry(step, rc, args) ==
    [dep |-> Deps[cur], step |-> step, rc |-> rc, args |-> args]

\* variant: the existence test is dropped
MutNeedsClone(name) == TRUE
\* if not os.path.exists(repo_dir)
NeedsClone(name) == ~repoExists[name]

\* variant: an existing build directory is kept (makedirs without rmtree)
MutBuildDirAfterRecreate(old) == IF old = "absent" THEN "empty" ELSE old
\* rmtree (when present) followed by makedirs
BuildDirAfterRecreate(old) == "empty"

\* variant: the build step is left out
MutStepAfter(step) ==
    CASE step = "clone" -> "builddir"
      [] step = "builddir" -> "configure"
      [] step = "configure" -> "install"
      [] step = "build" -> "install"
\* the order of the external invocations of setup_dependency
StepAfter(step) ==
    CASE step = "clone" -> "builddir"
      [] step = "builddir" -> "configure"
      [] step = "configure" -> "build"
      [] step = "build" -> "install"

\* variant: the patch call is left out
MutMainAfterSetup(c) ==
    CASE c = 1 -> [cur |-> 2, pc |-> "checkout"]
      [] c = 2 -> [cur |-> 3, pc |-> "checkout"]
      [] c = 3 -> [cur |-> 3, pc |-> "return"]
\* main(): what follows the setup_dependency call of dependency c
MainAfterSetup(c) ==
    CASE c = 1 -> [cur |-> 2, pc |-> "checkout"]
      [] c = 2 -> [cur |-> 2, pc |-> "patch"]
      [] c = 3 -> [cur |-> 3, pc |-> "return"]

\* variant: a missing file ends the process like a failed command
MutAfterPatchMissing == [cur |-> 2, pc |-> "done", exit |-> 1]
\* patch_thread_system_config: what follows the warning (a plain return)
AfterPatchMissing == [cur |-> 3, pc |-> "checkout", exit |-> -1]

CloneRepo ==
    /\ pc = "checkout"
    /\ NeedsClone(Deps[cur])
    /\ \E rc \in ReturnCodes :
         \E left \in (IF rc = 0 THEN {TRUE} ELSE {TRUE, FALSE}) :
           LET r == run_command(rc, StepAfter("clone"))
           IN  /\ pc' = r.pc
               /\ exitCode' = r.exit
               /\ log' = Append(log, Entry("clone", rc, <<RepoUrl(Deps[cur])>>))
               /\ repoExists' = [repoExists EXCEPT ![Deps[cur]] = left]
    /\ UNCHANGED <<os, compiler, host, run, cur, buildDir, installed, tree,
                   written, warned, startRepos>>

SkipClone ==
    /\ pc = "checkout"
    /\ ~NeedsClone(Deps[cur])
    /\ pc' = StepAfter("clone")
    /\ UNCHANGED <<os, compiler, host, run, cur, exitCode, repoExists,
                   buildDir, installed, tree, written, warned, startRepos,
                   log>>

RecreateBuildDir ==
    /\ pc = "builddir"
    /\ log' = log
              \o (IF buildDir[Deps[cur]] # "absent"
                  THEN <<Entry("rmtree", 0, << >>)>> ELSE << >>)
              \o <<Entry("makedirs", 0, << >>)>>
    /\ buildDir' = [buildDir EXCEPT
                      ![Deps[cur]] = BuildDirAfterRecreate(@)]
    /\ pc' = StepAfter("builddir")
    /\ UNCHANGED <<os, compiler, host, run, cur, exitCode, repoExists,
                   installed, tree, written, warned, startRepos>>

Configure ==
    /\ pc = "configure"
    /\ \E rc \in ReturnCodes :
         \E after \in (IF rc = 0 THEN {"current"} ELSE {"empty", "current"}) :
           LET r == run_command(rc, StepAfter("configure"))
           IN  /\ pc' = r.pc
               /\ exitCode' = r.exit
               /\ log' = Append(log, Entry("configure", rc,
                                           cmake_args(Deps[cur], os, compiler)))
               /\ buildDir' = [buildDir EXCEPT ![Deps[cur]] = after]
    /\ UNCHANGED <<os, compiler, host, run, cur, repoExists, installed, tree,
                   written, warned, startRepos>>

Build ==
    /\ pc = "build"
    /\ \E rc \in ReturnCodes :
         LET r == run_command(rc, StepAfter("build"))
         IN  /\ pc' = r.pc
             /\ exitCode' = r.exit
             /\ log' = Append(log, Entry("build", rc, <<BuildType>>))
    /\ buildDir' = [buildDir EXCEPT ![Deps[cur]] = "current"]
    /\ UNCHANGED <<os, compiler, host, run, cur, repoExists, installed, tree,
                   written, warned, startRepos>>

Install ==
    /\ pc = "install"
    /\ \E rc \in ReturnCodes :
         LET nxt == MainAfterSetup(cur)
             r == run_command(rc, nxt.pc)
         IN  /\ pc' = r.pc
             /\ exitCode' = r.exit
             /\ cur' = IF r.pc = "done" THEN cur ELSE nxt.cur
             /\ log' = Append(log, Entry("install", rc, <<BuildType>>))
             /\ installed' = [installed EXCEPT ![Deps[cur]] = (rc = 0)]
             /\ IF rc = 0 /\ Deps[cur] = "thread_system"
                THEN tree' \in TreeSamples
                ELSE tree' = tree
    /\ UNCHANGED <<os, compiler, host, run, repoExists, buildDir, written,
                   warned, startRepos>>

PatchMissing ==
    /\ pc = "patch"
    /\ FindConfig(tree) = 0
    /\ warned' = TRUE
    /\ log' = Append(log, Entry("patch", 0, << >>))
    /\ cur' = AfterPatchMissing.cur
    /\ pc' = AfterPatchMissing.pc
    /\ exitCode' = AfterPatchMissing.exit
    /\ UNCHANGED <<os, compiler, host, run, repoExists, buildDir, installed,
                   tree, written, startRepos>>

PatchFound ==
    /\ pc = "patch"
    /\ FindConfig(tree) # 0
    /\ LET i == FindConfig(tree)
       IN  /\ tree' = [tree EXCEPT
                         ![i].content = PatchedBytes(@, host)]
           /\ written' = written \cup {<<thread_install.leaf, i>>}
    /\ log' = Append(log, Entry("patch", 0, << >>))
    /\ cur' = 3
    /\ pc' = "checkout"
    /\ UNCHANGED <<os, compiler, host, run, exitCode, repoExists, buildDir,
                   installed, warned, startRepos>>

patch_thread_system_config == PatchMissing \/ PatchFound

MainReturn ==
    /\ pc = "return"
    /\ pc' = "done"
    /\ exitCode' = 0
    /\ UNCHANGED <<os, compiler, host, run, cur, repoExists, buildDir,
                   installed, tree, written, warned, startRepos, log>>

\* the script is invoked again on the workspace the last run left behind
StartRun ==
    /\ pc = "done"
    /\ run < MaxRuns
    /\ run' = run + 1
    /\ cur' = 1
    /\ pc' = "checkout"
    /\ exitCode' = -1
    /\ buildDir' = [d \in DepNames |->
                      IF buildDir[d] = "absent" THEN "absent" ELSE "stale"]
    /\ installed' = [d \in DepNames |-> FALSE]
    /\ written' = {}
    /\ warned' = FALSE
    /\ startRepos' = {d \in DepNames : repoExists[d]}
    /\ log' = << >>
    /\ UNCHANGED <<os, compiler, host, repoExists, tree>>

Init ==
    /\ os \in OsValues
    /\ compiler \in CompilerValues
    /\ host \in HostValues
    /\ run = 1
    /\ cur = 1
    /\ pc = "checkout"
    /\ exitCode = -1
    /\ repoExists \in [DepNames -> BOOLEAN]
    /\ buildDir = [d \in DepNames |-> "absent"]
    /\ installed = [d \in DepNames |-> FALSE]
    /\ tree = << >>
    /\ written = {}
    /\ warned = FALSE
    /\ startRepos = {d \in DepNames : repoExists[d]}
    /\ log = << >>

Next ==
    \/ CloneRepo
    \/ SkipClone
    \/ RecreateBuildDir
    \/ Configure
    \/ Build
    \/ Install
    \/ PatchMissing
    \/ PatchFound
    \/ MainReturn
    \/ StartRun

Spec == Init /\ [][Next]_vars

\* ------------------------------------------------------------ the patch alone
Alphabet == {"find_dependency", "(", ")", "fmt", "x", " ", "LF", "CR"}
\* the file contents of at most n characters
Contents(n) == UNION {[1..k -> Alphabet] : k \in 0..n}
\* install trees of two directories, the first holding any such file or none
PatchTrees(n) ==
    { <<e1, e2>> :
        e1 \in {NoFile} \cup {File(c) : c \in Contents(n)},
        e2 \in {NoFile, File(<<"find_dependency", "(", "fmt", ")">>)} }

\* the log of a run that found common_system and thread_system checked out,
\* has installed both and is about to patch
LogBeforePatch ==
    LET steps == <<"makedirs", "configure", "build", "install">>
        E(d, st) == [dep |-> d, step |-> st, rc |-> 0,
                     args |-> CASE st = "makedirs" -> << >>
                                [] st = "configure" -> cmake_args(d, "Linux", "")
                                [] OTHER -> <<BuildType>>]
    IN  [i \in 1..8 |-> E(Deps[((i - 1) \div 4) + 1], steps[((i - 1) % 4) + 1])]

InitPatch ==
    /\ os = "Linux"
    /\ compiler = ""
    /\ host \in HostValues
    /\ run = 1
    /\ cur = 2
    /\ pc = "patch"
    /\ exitCode = -1
    /\ repoExists = [d \in DepNames |-> d # "logger_system"]
    /\ buildDir = [d \in DepNames |->
                     IF d = "logger_system" THEN "absent" ELSE "current"]
    /\ installed = [d \in DepNames |-> d # "logger_system"]
    /\ tree \in PatchTrees(MaxLen)
    /\ written = {}
    /\ warned = FALSE
    /\ startRepos = {"common_system", "thread_system"}
    /\ log = LogBeforePatch

NextPatch ==
    \/ PatchMissing
    \/ PatchFound

SpecPatch == InitPatch /\ [][NextPatch]_vars

\* ------------------------------------------------------------ properties
LogIdx == 1..Len(log)
Has(d, st) == \E i \in LogIdx : log[i].dep = d /\ log[i].step = st
HasOk(d, st) ==
    \E i \in LogIdx : log[i].dep = d /\ log[i].step = st /\ log[i].rc = 0
Count(d, st) == Cardinality({i \in LogIdx : log[i].dep = d /\ log[i].step = st})
IsCommand(st) == st \in {"clone", "configure", "build", "install"}

\* C1: a command that returns non-zero is the last step of the run and the
\* process ends with status 1; the process ends with status 0 only when every
\* command it invoked returned 0 and all three dependencies were installed.
C1_FailureIsFatal ==
    /\ \A i \in LogIdx :
         (IsCommand(log[i].step) /\ log[i].rc # 0)
           => (i = Len(log) /\ pc = "done" /\ exitCode = 1)
    /\ pc = "done" <=> exitCode \in {0, 1}
    /\ exitCode = 0 =>
         /\ \A i \in LogIdx : log[i].rc = 0
         /\ \A d \in DepNames : installed[d] /\ HasOk(d, "install")

C1_Witness ==
    /\ exitCode = 1
    /\ installed["common_system"]
    /\ Len(log) > 0
    /\ log[Len(log)].dep = "thread_system"
    /\ log[Len(log)].step = "build"
    /\ log[Len(log)].rc # 0

\* C2: the dependencies are processed in the order common_system,
\* thread_system, logger_system; the patch is attempted right after the
\* install of thread_system and before any step of logger_system; no step of
\* a dependency is taken before the previous one has installed successfully.
DepIndex(d) == CHOOSE k \in 1..3 : Deps[k] = d
C2_FixedOrder ==
    \A i \in LogIdx :
      /\ \A j \in 1..(i - 1) : DepIndex(log[j].dep) <= DepIndex(log[i].dep)
      /\ (DepIndex(log[i].dep) > 1 /\ log[i].step # "patch") =>
           \E j \in 1..(i - 1) :
             /\ log[j].dep = Deps[DepIndex(log[i].dep) - 1]
             /\ log[j].step = "install"
             /\ log[j].rc = 0
      /\ log[i].step = "patch" =>
           /\ i > 1
           /\ log[i - 1].dep = "thread_system"
           /\ log[i - 1].step = "install"
           /\ log[i - 1].rc = 0
      /\ log[i].dep = "logger_system" =>
           \E j \in 1..(i - 1) : log[j].step = "patch"

C2_Witness ==
    /\ Has("logger_system", "configure")
    /\ Has("thread_system", "patch")

\* C3: git clone is invoked for a dependency exactly when workspace/<name>
\* does not exist when its setup begins; a re-run that starts with all three
\* directories present issues no clone and leaves them in place.
Started(d) == Has(d, "clone") \/ Has(d, "makedirs")
C3_CloneIffAbsent ==
    /\ \A d \in DepNames :
         /\ Started(d) => (Has(d, "clone") <=> d \notin startRepos)
         /\ Count(d, "clone") <= 1
         /\ d \in startRepos => repoExists[d]
    /\ startRepos = DepNames =>
         /\ \A i \in LogIdx : log[i].step # "clone"
         /\ \A d \in DepNames : repoExists[d]

C3_Witness ==
    /\ run >= 2
    /\ startRepos = DepNames
    /\ exitCode = 0

\* C4 as claimed: once a re-run has ended, no dependency's build directory
\* holds artifacts of an earlier run.
C4_NoStaleAfterAnyRerun ==
    (run >= 2 /\ pc = "done") => \A d \in DepNames : buildDir[d] # "stale"

\* C4 as amended: a re-run deletes and recreates the build directory of each
\* dependency whose build-directory step it completes, so no artifact of an
\* earlier run persists there; a re-run that ends with status 0 has done so
\* for all three.  The build directories of dependencies the run did not
\* reach before it terminated are left as they were.
C4_RecreatedWhenReached ==
    /\ \A d \in DepNames :
         /\ Has(d, "makedirs") => buildDir[d] \in {"empty", "current"}
         /\ ~Has(d, "makedirs") =>
              (buildDir[d] \in {"absent", "stale"} /\ ~Has(d, "rmtree"))
    /\ \A i \in LogIdx :
         log[i].step = "rmtree" =>
           (i < Len(log) /\ log[i + 1].step = "makedirs"
                         /\ log[i + 1].dep = log[i].dep)
    /\ exitCode = 0 =>
         \A d \in DepNames : Has(d, "makedirs") /\ buildDir[d] = "current"

C4_Witness ==
    /\ run >= 2
    /\ exitCode = 0
    /\ \A d \in DepNames : Has(d, "rmtree")

\* C5: when the thread install tree holds no thread_system-config.cmake the
\* patch step prints the warning, writes no file and does not end the
\* process; the run goes on to set up logger_system.  Every other failure
\* ends the run.
PatchDone == Has("thread_system", "patch")
NoConfig == \A i \in 1..Len(tree) : ~tree[i].has
C5_MissingConfigNotFatal ==
    /\ (PatchDone /\ NoConfig) =>
         /\ warned
         /\ written = {}
         /\ pc # "done" => cur = 3
         /\ exitCode = 1 =>
              (log[Len(log)].dep = "logger_system" /\ log[Len(log)].rc # 0)
    /\ warned => (PatchDone /\ NoConfig)
    /\ exitCode # 1 => \A i \in LogIdx : log[i].rc = 0

C5_Witness ==
    /\ warned
    /\ exitCode = 0
    /\ installed["logger_system"]

\* C6 as claimed: after the patch every find_dependency(fmt ...) statement of
\* the file lies entirely inside comments (each of its characters follows a
\* "#" on its own line), whatever whitespace and trailing arguments it has
\* and over however many lines it runs, and removing the markers gives the
\* original text back.
RECURSIVE Unmark(_)
Unmark(s) ==
    IF s = << >> THEN << >>
    ELSE IF Len(s) > 1 /\ s[1] = "#" /\ s[2] = " "
         THEN Unmark(Tail(Tail(s)))
         ELSE <<Head(s)>> \o Unmark(Tail(s))
InComment(s, p) ==
    \E q \in 1..(p - 1) :
      s[q] = "#" /\ \A r \in q..(p - 1) : s[r] # "LF"
StatementsCommented(before, after) ==
    /\ Unmark(after) = before
    /\ \A i \in 1..Len(after) :
         MatchEnd(after, i) # 0 =>
           \A p \in i..MatchEnd(after, i) : InComment(after, p)
C6_WholeStatementCommented ==
    [][(pc = "patch" /\ FindConfig(tree) # 0) =>
         StatementsCommented(ReadText(tree[FindConfig(tree)].content),
                             ReadText(tree'[FindConfig(tree)].content))]_vars

\* C10 as claimed: the patch writes at most one file, the first
\* thread_system-config.cmake of the walk, inside the thread install tree,
\* and changes it only by putting the marker in front of the find_dependency
\* statements whose library is named fmt; every other character, statements
\* naming another library included, stays as it was.  The patched file is
\* compared as text, the way the script reads it, so a change of line-ending
\* bytes alone is not counted against the claim.
IsIdent(c) == c \in {"x", "fmt", "find_dependency"}
NamesFmtEnd(b, i) ==
    IF b[i] # "find_dependency" THEN 0
    ELSE LET j == SkipWs(b, i + 1)
         IN  IF j > Len(b) \/ b[j] # "(" THEN 0
             ELSE LET k == SkipWs(b, j + 1)
                  IN  IF k >= Len(b) \/ b[k] # "fmt" \/ IsIdent(b[k + 1])
                      THEN 0
                      ELSE LET closes == {m \in (k + 1)..Len(b) : b[m] = ")"}
                           IN  IF closes = {} THEN 0 ELSE Min(closes)
RECURSIVE MarkFmtFrom(_, _)
MarkFmtFrom(b, i) ==
    IF i > Len(b) THEN << >>
    ELSE LET e == NamesFmtEnd(b, i)
         IN  IF e = 0
             THEN <<b[i]>> \o MarkFmtFrom(b, i + 1)
             ELSE <<"#", " ">> \o SubSeq(b, i, e) \o MarkFmtFrom(b, e + 1)
C10_OnlyFmtStatementsMarked ==
    [][pc = "patch" =>
         LET f == FindConfig(tree)
         IN  /\ written' \subseteq {<<"thread_system_install", f>>}
             /\ f = 0 => written' = {}
             /\ Len(tree') = Len(tree)
             /\ \A i \in 1..Len(tree) :
                  /\ tree'[i].has = tree[i].has
                  /\ i # f => tree'[i].content = tree[i].content
                  /\ i = f => ReadText(tree'[i].content)
                                = MarkFmtFrom(ReadText(tree[i].content), 1)]_vars

\* C7: with --os exactly "Windows" every include entry of -DCMAKE_CXX_FLAGS
\* passed to thread_system and logger_system has the form /I<dir>/include,
\* with any other value the form -I<dir>/include; the forms are never mixed.
CxxFlags(a) == {k \in 1..Len(a) : a[k].key = "CMAKE_CXX_FLAGS"}
C7_IncludeFlagForm ==
    \A i \in LogIdx :
      (log[i].step = "configure" /\ log[i].dep # "common_system") =>
        /\ Cardinality(CxxFlags(log[i].args)) = 1
        /\ \A k \in CxxFlags(log[i].args) :
             /\ Len(log[i].args[k].val) >= 1
             /\ \A n \in 1..Len(log[i].args[k].val) :
                  log[i].args[k].val[n].form
                    = (IF os = "Windows" THEN "/I" ELSE "-I")

C7_Witness ==
    /\ os = "Windows"
    /\ Has("thread_system", "configure")
    /\ Has("logger_system", "configure")

\* C8: logger_system's -DCMAKE_PREFIX_PATH lists the common install
\* directory, then the thread install directory; thread_system's lists only
\* the common install directory; common_system has no such flag; each
\* dependency's -DCMAKE_INSTALL_PREFIX names <install-prefix>/<name>_install.
Keyed(a, key) == {k \in 1..Len(a) : a[k].key = key}
Dir(leaf) == [base |-> "<install-prefix>", leaf |-> leaf]
ExpectedPrefixPath(d) ==
    CASE d = "common_system" -> << >>
      [] d = "thread_system" -> << Dir("common_system_install") >>
      [] d = "logger_system" -> << Dir("common_system_install"),
                                   Dir("thread_system_install") >>
ExpectedInstall(d) ==
    CASE d = "common_system" -> Dir("common_system_install")
      [] d = "thread_system" -> Dir("thread_system_install")
      [] d = "logger_system" -> Dir("logger_system_install")
C8_InstallDirsPropagated ==
    \A i \in LogIdx :
      log[i].step = "configure" =>
        LET a == log[i].args
            d == log[i].dep
        IN  /\ Cardinality(Keyed(a, "CMAKE_INSTALL_PREFIX")) = 1
            /\ \A k \in Keyed(a, "CMAKE_INSTALL_PREFIX") :
                 a[k].val = << ExpectedInstall(d) >>
            /\ Cardinality(Keyed(a, "CMAKE_PREFIX_PATH"))
                 = (IF d = "common_system" THEN 0 ELSE 1)
            /\ \A k \in Keyed(a, "CMAKE_PREFIX_PATH") :
                 a[k].val = ExpectedPrefixPath(d)
            /\ \A k \in Keyed(a, "CMAKE_CXX_FLAGS") :
                 [n \in 1..Len(a[k].val) |-> a[k].val[n].dir]
                   = ExpectedPrefixPath(d)

C8_Witness ==
    /\ HasOk("logger_system", "configure")
    /\ HasOk("thread_system", "configure")
    /\ HasOk("common_system", "configure")

\* C9: within one dependency configure directly follows the recreation of
\* the build directory, build directly follows a successful configure and
\* install directly follows a successful build; a run that ends with status
\* 0 has invoked configure, build and install exactly once per dependency.
FollowsOk(i, st) ==
    /\ i > 1
    /\ log[i - 1].dep = log[i].dep
    /\ log[i - 1].step = st
    /\ log[i - 1].rc = 0
C9_StepOrder ==
    /\ \A i \in LogIdx :
         /\ log[i].step = "clone" =>
              \A j \in 1..(i - 1) : log[j].dep # log[i].dep
         /\ log[i].step = "makedirs" =>
              \A j \in 1..(i - 1) :
                log[j].dep = log[i].dep => log[j].step \in {"clone", "rmtree"}
         /\ log[i].step = "configure" => FollowsOk(i, "makedirs")
         /\ log[i].step = "build" => FollowsOk(i, "configure")
         /\ log[i].step = "install" => FollowsOk(i, "build")
    /\ \A d \in DepNames :
         \A st \in {"configure", "build", "install"} :
           /\ Count(d, st) <= 1
           /\ exitCode = 0 => Count(d, st) = 1

C9_Witness ==
    /\ exitCode = 0
    /\ Has("common_system", "rmtree")
    /\ Has("logger_system", "clone")

====
